---------------------------- MODULE Spec2Model ----------------------------
(***************************************************************************)
(* A model of the feed search engine: engine.py (FeedScraper.scrape_all,   *)
(* InvertedIndex, BM25Ranker, SearchEngine) and the request handlers of    *)
(* main.py (startup_event, search, reload_feeds).                          *)
(*                                                                         *)
(* Texts are sequences of characters, so that tokenize (lower-casing and   *)
(* splitting on non-word characters) is computed, not assumed.  Python     *)
(* dicts are sequences of <<key, value>> pairs with distinct keys, in      *)
(* insertion order, because the ranking's order among equal scores is the  *)
(* iteration order of these dicts.  Floats are fixed-point integers with   *)
(* Scale units per 1.0; math.log is its atanh series summed in that fixed  *)
(* point.                                                                  *)
(***************************************************************************)
EXTENDS Integers, Sequences, FiniteSets, TLC

VARIABLES
    pc,        \* Spec/SpecRebuild: "init", "built" or "crashed"
    df,        \* the DataFrame given to SearchEngine: [columns, rows]
    docs,      \* the list of texts given to the last call of build
    idx,       \* the InvertedIndex instance: [index, doc_lens, N, avg_dl]
    builds,    \* number of build calls made on the instance idx
    op,        \* the last operation run: [name, query, top_k, value]
    ranked,    \* what BM25Ranker.score returned to the last search
    results,   \* what the last search returned
    fault,     \* "none", or the exception the last operation raised
    heap,      \* SpecServe: the SearchEngine objects allocated so far
    engine,    \* SpecServe: main.py's global engine (0 = unbound, else a heap id)
    feed_df,   \* SpecServe: main.py's global feed_df ("unbound" or a DataFrame)
    reloads,   \* SpecServe: number of /reload requests taken so far
    loader,    \* SpecServe: the threads running startup_event and reload_feeds
    searcher   \* SpecServe: the threads running the /search handler

vars == <<pc, df, docs, idx, builds, op, ranked, results, fault,
          heap, engine, feed_df, reloads, loader, searcher>>

engineVars == <<pc, df, docs, idx, builds, op, ranked, results, fault>>
serveVars == <<heap, engine, feed_df, reloads, loader, searcher>>

(***************************************************************************)
(* Bounds of the model.                                                    *)
(***************************************************************************)
MaxDocs == 3
MaxTopK == 3
MaxBuilds == 2
MaxReloads == 2

(***************************************************************************)
(* Fixed-point arithmetic standing for Python floats.                      *)
(***************************************************************************)
Scale == 10000
LnTerms == 40

Min(a, b) == IF a < b THEN a ELSE b

(***************************************************************************)
(* Python dict: a sequence of <<key, value>> pairs in insertion order.     *)
(***************************************************************************)
EmptyDict == <<>>

DictKeys(d) == {d[j][1] : j \in 1..Len(d)}

DictHas(d, k) == \E j \in 1..Len(d) : d[j][1] = k

DictPos(d, k) == CHOOSE j \in 1..Len(d) : d[j][1] = k

\* d.get(k, default): never inserts.
DictGet(d, k, default) == IF DictHas(d, k) THEN d[DictPos(d, k)][2] ELSE default

\* d[k] = v: an existing key keeps its position, a new key goes last.
DictSet(d, k, v) ==
    IF DictHas(d, k)
    THEN [d EXCEPT ![DictPos(d, k)] = <<k, v>>]
    ELSE Append(d, <<k, v>>)

RECURSIVE SumValues(_)
SumValues(d) == IF d = <<>> THEN 0 ELSE d[1][2] + SumValues(Tail(d))

(***************************************************************************)
(* InvertedIndex.tokenize: re.findall(r"\w+", text.lower()).               *)
(***************************************************************************)
Lower(c) == IF c = "A" THEN "a" ELSE IF c = "B" THEN "b" ELSE c

WordChars == {"a", "b", "c", "A", "B", "1", "_"}

LowerText(text) == [j \in 1..Len(text) |-> Lower(text[j])]

\* Scan left to right; run is the word being read, out the words found.
RECURSIVE FindAllWords(_, _, _)
FindAllWords(text, run, out) ==
    IF text = <<>>
    THEN IF run = <<>> THEN out ELSE Append(out, run)
    ELSE IF Head(text) \in WordChars
         THEN FindAllWords(Tail(text), Append(run, Head(text)), out)
         ELSE FindAllWords(Tail(text), <<>>,
                           IF run = <<>> THEN out ELSE Append(out, run))

tokenize(text) == FindAllWords(LowerText(text), <<>>, <<>>)

\* collections.Counter(toks): counts, keys in order of first occurrence.
RECURSIVE CounterFrom(_, _)
CounterFrom(toks, c) ==
    IF toks = <<>> THEN c
    ELSE CounterFrom(Tail(toks), DictSet(c, Head(toks), DictGet(c, Head(toks), 0) + 1))

\* A Counter that records presence, not multiplicity.
CounterPresence(toks) ==
    LET c == CounterFrom(toks, EmptyDict)
    IN [j \in 1..Len(c) |-> <<c[j][1], 1>>]

Counter(toks) == CounterFrom(toks, EmptyDict)

(***************************************************************************)
(* InvertedIndex.                                                          *)
(***************************************************************************)
ZeroAvg == [num |-> 0, den |-> 1]

\* InvertedIndex.__init__
InvertedIndexInit == [index |-> EmptyDict, doc_lens |-> EmptyDict, N |-> 0, avg_dl |-> ZeroAvg]

\* for term, cnt in freqs.items(): self.index[term][i] = cnt
RECURSIVE AddPostings(_, _, _)
AddPostings(index, freqs, i) ==
    IF freqs = <<>> THEN index
    ELSE LET term == freqs[1][1]
             cnt == freqs[1][2]
             old == DictGet(index, term, EmptyDict)
         IN AddPostings(DictSet(index, term, DictSet(old, i, cnt)), Tail(freqs), i)

\* One iteration of the loop of build, for document number i (0-based).
BuildDoc(ix, i, text) ==
    LET toks == tokenize(text)
    IN [ix EXCEPT !.doc_lens = DictSet(ix.doc_lens, i, Len(toks)),
                  !.index = AddPostings(ix.index, Counter(toks), i)]

RECURSIVE BuildLoop(_, _, _)
BuildLoop(ix, texts, i) ==
    IF i >= Len(texts) THEN ix
    ELSE BuildLoop(BuildDoc(ix, i, texts[i + 1]), texts, i + 1)

\* self.avg_dl = sum(self.doc_lens.values()) / self.N if self.N else 0
AvgDl(doc_lens, n) ==
    IF n # 0 THEN [num |-> SumValues(doc_lens), den |-> n] ELSE ZeroAvg

\* InvertedIndex.build(docs) on the instance ix, fresh or not.
build(ix, texts) ==
    LET looped == BuildLoop([ix EXCEPT !.N = Len(texts)], texts, 0)
    IN [looped EXCEPT !.avg_dl = AvgDl(looped.doc_lens, looped.N)]


(***************************************************************************)
(* BM25Ranker.  k1 = 1.5 = K1Num / K1Den and b = 0.75 = BNum / BDen.       *)
(***************************************************************************)
K1Num == 3
K1Den == 2
BNum == 3
BDen == 4

\* The series 2 * (z + z^3/3 + z^5/5 + ...) of ln((1+z)/(1-z)) from term k on,
\* pow being z^(2k+1) and zz being z^2, all in fixed point.
RECURSIVE LnSeries(_, _, _)
LnSeries(pow, zz, k) ==
    IF k >= LnTerms \/ pow = 0 THEN 0
    ELSE (2 * pow) \div (2 * k + 1) + LnSeries((pow * zz) \div Scale, zz, k + 1)

\* math.log(num / den) for num, den > 0, as a fixed-point number.
Log(num, den) ==
    LET z == ((num - den) * Scale) \div (num + den)
    IN LnSeries(z, (z * z) \div Scale, 0)

\* The classical argument, without the + 1.
IdfArgUnsmoothed(n, dfreq) ==
    [num |-> 2 * n - 2 * dfreq + 1, den |-> 2 * dfreq + 1]

\* The argument of the logarithm of idf, as a fraction of integers:
\* (N - df + 0.5) / (df + 0.5) + 1 with both halves doubled.
IdfArg(n, dfreq) ==
    [num |-> (2 * n - 2 * dfreq + 1) + (2 * dfreq + 1), den |-> 2 * dfreq + 1]

\* self.idx.index[term]: subscripting a defaultdict inserts a missing key.
IndexGetItem(index, term) ==
    [value |-> DictGet(index, term, EmptyDict),
     index |-> IF DictHas(index, term) THEN index ELSE Append(index, <<term, EmptyDict>>)]

\* self.idx.index.get(term, {}): the value found and the index afterwards.
IndexGet(index, term) ==
    [value |-> DictGet(index, term, EmptyDict), index |-> index]

\* df = len(self.idx.index.get(term, {}))
DocFreq(ix, term) == Len(IndexGet(ix.index, term).value)

\* BM25Ranker.idf(term), in fixed point.
idf(ix, term) ==
    LET arg == IdfArg(ix.N, DocFreq(ix, term))
    IN Log(arg.num, arg.den)

\* idf * (f * (k1 + 1)) / (f + k1 * (1 - b + b * dl / avg_dl)) for avg_dl # 0,
\* the quotient dl / avg_dl being (dl * avg_dl.den) / avg_dl.num.
TermScore(idfv, f, dl, avg_dl) ==
    LET rn == dl * avg_dl.den
        rd == avg_dl.num
        top == f * (K1Num + K1Den) * BDen * rd
        bot == f * K1Den * BDen * rd + K1Num * ((BDen - BNum) * rd + BNum * rn)
    IN (idfv * top) \div bot

\* The inner loop of score over one term's postings; acc is [scores, fault].
RECURSIVE ScorePostings(_, _, _, _)
ScorePostings(acc, postings, idfv, ix) ==
    IF postings = <<>> \/ acc.fault # "none" THEN acc
    ELSE LET doc_id == postings[1][1]
             f == postings[1][2]
         IN IF ~DictHas(ix.doc_lens, doc_id)
            THEN [acc EXCEPT !.fault = "KeyError"]
            ELSE IF ix.avg_dl.num = 0
            THEN [acc EXCEPT !.fault = "ZeroDivisionError"]
            ELSE LET dl == DictGet(ix.doc_lens, doc_id, 0)
                     s == DictGet(acc.scores, doc_id, 0)
                          + TermScore(idfv, f, dl, ix.avg_dl)
                 IN ScorePostings([acc EXCEPT !.scores = DictSet(acc.scores, doc_id, s)],
                                  Tail(postings), idfv, ix)

\* The outer loop of score over the distinct query terms, in first-seen order;
\* acc is [scores, fault, ix], ix carrying the index through the lookups.
RECURSIVE ScoreTerms(_, _)
ScoreTerms(acc, terms) ==
    IF terms = <<>> \/ acc.fault # "none" THEN acc
    ELSE LET term == terms[1][1]
             got == IndexGet(acc.ix.index, term)
             ix1 == [acc.ix EXCEPT !.index = got.index]
             postings == got.value
         IN IF postings = <<>>
            THEN ScoreTerms([acc EXCEPT !.ix = ix1], Tail(terms))
            ELSE LET idfv == idf(ix1, term)
                     inner == ScorePostings([scores |-> acc.scores, fault |-> "none"],
                                            postings, idfv, ix1)
                 IN ScoreTerms([scores |-> inner.scores, fault |-> inner.fault, ix |-> ix1],
                               Tail(terms))

\* Insert item before the entries of equal score: an unstable sort.
RECURSIVE InsertDescStrict(_, _)
InsertDescStrict(sorted, item) ==
    IF sorted = <<>> THEN <<item>>
    ELSE IF sorted[1][2] > item[2]
         THEN <<sorted[1]>> \o InsertDescStrict(Tail(sorted), item)
         ELSE <<item>> \o sorted

\* Insert item after every entry whose score is at least item's score.
RECURSIVE InsertDesc(_, _)
InsertDesc(sorted, item) ==
    IF sorted = <<>> THEN <<item>>
    ELSE IF sorted[1][2] >= item[2]
         THEN <<sorted[1]>> \o InsertDesc(Tail(sorted), item)
         ELSE <<item>> \o sorted

\* sorted(scores.items(), key=lambda x: x[1], reverse=True): a stable sort.
RECURSIVE SortedDesc(_, _)
SortedDesc(items, sorted) ==
    IF items = <<>> THEN sorted
    ELSE SortedDesc(Tail(items), InsertDesc(sorted, Head(items)))

\* s[:k + 1]
TakeOneMore(s, k) == SubSeq(s, 1, Min(k + 1, Len(s)))

\* s[:k] for k >= 0
Take(s, k) == SubSeq(s, 1, Min(k, Len(s)))

\* A score that starts every document at 0 instead of leaving it out.
RECURSIVE ZeroScores(_)
ZeroScores(doc_lens) ==
    IF doc_lens = <<>> THEN <<>>
    ELSE <<<<doc_lens[1][1], 0>>>> \o ZeroScores(Tail(doc_lens))

scoreEveryDoc(ix, query, top_k) ==
    LET q_toks == Counter(tokenize(query))
        acc == ScoreTerms([scores |-> ZeroScores(ix.doc_lens), fault |-> "none", ix |-> ix],
                          q_toks)
    IN [ranked |-> IF acc.fault = "none"
                   THEN Take(SortedDesc(acc.scores, <<>>), top_k)
                   ELSE <<>>,
        fault |-> acc.fault,
        ix |-> acc.ix]

\* BM25Ranker.score(query, top_k): [ranked, fault, ix].
score(ix, query, top_k) ==
    LET q_toks == Counter(tokenize(query))
        acc == ScoreTerms([scores |-> EmptyDict, fault |-> "none", ix |-> ix], q_toks)
    IN [ranked |-> IF acc.fault = "none"
                   THEN Take(SortedDesc(acc.scores, <<>>), top_k)
                   ELSE <<>>,
        fault |-> acc.fault,
        ix |-> acc.ix]


(***************************************************************************)
(* FeedScraper.scrape_all and SearchEngine.                                *)
(***************************************************************************)
TextCol == "Item Description"

\* pd.DataFrame(data) for a list of row dicts: no rows, no columns.
DataFrame(data) ==
    [columns |-> IF data = <<>> THEN {} ELSE {TextCol}, rows |-> data]

\* df[text_col].fillna('').tolist(), for a frame that has the column.
TextsOf(frame) == [j \in 1..Len(frame.rows) |-> frame.rows[j][TextCol]]

\* SearchEngine.__init__(df, text_col): [fault, df, index].
SearchEngineInit(frame) ==
    IF TextCol \notin frame.columns
    THEN [fault |-> "KeyError", df |-> frame, index |-> InvertedIndexInit]
    ELSE [fault |-> "none", df |-> frame,
          index |-> build(InvertedIndexInit, TextsOf(frame))]

\* The score of the last row, which is the smallest of a ranked result.
LastScore(rows) == IF rows = <<>> THEN 0 ELSE rows[Len(rows)].score

RECURSIVE MaxScore(_)
MaxScore(rows) ==
    IF rows = <<>> THEN 0
    ELSE LET m == MaxScore(Tail(rows))
         IN IF Len(rows) = 1 \/ rows[1].score >= m THEN rows[1].score ELSE m

\* res_df['score'] / max_score * 100 in fixed point; pandas gives nan or inf,
\* not an exception, when max_score is 0.
PctRelevance(s, max_score) ==
    IF max_score = 0 THEN "nan" ELSE ((s * Scale) \div max_score) * 100

\* row = self.df.iloc[doc_id].to_dict(); row['score'] = score
JoinRows(frame, hits) ==
    [j \in 1..Len(hits) |->
        [row |-> frame.rows[hits[j][1] + 1], doc_id |-> hits[j][1], score |-> hits[j][2]]]

\* The pct_relevance column, added when the result frame is not empty.
WithPct(rows) ==
    [j \in 1..Len(rows) |->
        [row |-> rows[j].row, doc_id |-> rows[j].doc_id, score |-> rows[j].score,
         pct_relevance |-> PctRelevance(rows[j].score, MaxScore(rows))]]

\* SearchEngine.search(query, top_k) on an engine with frame and index ix.
search(frame, ix, query, top_k) ==
    LET r == score(ix, query, top_k)
    IN [results |-> IF r.fault = "none" THEN WithPct(JoinRows(frame, r.ranked)) ELSE <<>>,
        ranked |-> r.ranked, fault |-> r.fault, ix |-> r.ix]

(***************************************************************************)
(* Inputs.                                                                 *)
(***************************************************************************)
Texts == { <<>>, <<"a">>, <<"b">>, <<"A", " ", "a">>, <<"a", "-", "b">> }

Queries == { <<>>, <<"a">>, <<"B", " ", "a">>, <<"a", ",", "A">>, <<"c", "_", "1">> }

Terms == { <<"a">>, <<"b">>, <<"c">> }

TopKs == 0..MaxTopK

RowOf(text) == [c \in {TextCol} |-> text]

RECURSIVE SeqsUpTo(_, _)
SeqsUpTo(S, n) ==
    IF n = 0 THEN {<<>>}
    ELSE LET shorter == SeqsUpTo(S, n - 1)
         IN shorter \cup {Append(s, x) : s \in shorter, x \in S}

\* What scrape_all can return: up to MaxDocs rows.
DocLists == SeqsUpTo(Texts, MaxDocs)

DataOf(texts) == [j \in 1..Len(texts) |-> RowOf(texts[j])]

NoOp == [name |-> "none", query |-> <<>>, top_k |-> 0, value |-> 0]

(***************************************************************************)
(* Spec: one SearchEngine built from a scraped frame, then queried, as in  *)
(* main_cli.py and in main.py between reloads.                             *)
(***************************************************************************)
Init ==
    /\ pc = "init"
    /\ df = DataFrame(<<>>)
    /\ docs = <<>>
    /\ idx = InvertedIndexInit
    /\ builds = 0
    /\ op = NoOp
    /\ ranked = <<>>
    /\ results = <<>>
    /\ fault = "none"
    /\ heap = <<>>
    /\ engine = 0
    /\ feed_df = "unbound"
    /\ reloads = 0
    /\ loader = "none"
    /\ searcher = "none"

\* df = scraper.scrape_all(); engine = SearchEngine(df)
Construct(texts) ==
    /\ pc = "init"
    /\ \E e \in {SearchEngineInit(DataFrame(DataOf(texts)))} :
          /\ df' = e.df
          /\ fault' = e.fault
          /\ idx' = e.index
          /\ IF e.fault = "none"
             THEN pc' = "built" /\ docs' = TextsOf(e.df) /\ builds' = 1
             ELSE pc' = "crashed" /\ docs' = docs /\ builds' = builds
    /\ op' = [NoOp EXCEPT !.name = "SearchEngine"]
    /\ UNCHANGED <<ranked, results>>
    /\ UNCHANGED serveVars

\* self.ranker.idf(term)
Idf(term) ==
    /\ pc = "built"
    /\ op' = [name |-> "idf", query |-> term, top_k |-> 0, value |-> idf(idx, term)]
    /\ idx' = [idx EXCEPT !.index = IndexGet(idx.index, term).index]
    /\ fault' = "none"
    /\ ranked' = <<>>
    /\ results' = <<>>
    /\ UNCHANGED <<pc, df, docs, builds>>
    /\ UNCHANGED serveVars

\* engine.search(query, top_k), the call of self.ranker.score included
Search(query, top_k) ==
    /\ pc = "built"
    /\ \E r \in {search(df, idx, query, top_k)} :
          /\ ranked' = r.ranked
          /\ results' = r.results
          /\ fault' = r.fault
          /\ idx' = r.ix
    /\ op' = [name |-> "search", query |-> query, top_k |-> top_k, value |-> 0]
    /\ UNCHANGED <<pc, df, docs, builds>>
    /\ UNCHANGED serveVars

Next ==
    \/ \E texts \in DocLists : Construct(texts)
    \/ \E term \in Terms : Idf(term)
    \/ \E query \in Queries, top_k \in TopKs : Search(query, top_k)

Spec == Init /\ [][Next]_vars


(***************************************************************************)
(* What the properties are stated with: the documents' tokens, counted     *)
(* from the texts, not read from the index.                                *)
(***************************************************************************)
DocIds == 0..(Len(docs) - 1)

TokensOf(i) == tokenize(docs[i + 1])

Occurrences(t, toks) == Cardinality({k \in 1..Len(toks) : toks[k] = t})

SeqRange(s) == {s[k] : k \in 1..Len(s)}

AllTerms == Terms \cup DictKeys(idx.index) \cup UNION {SeqRange(TokensOf(i)) : i \in DocIds}

PostingCount(t, i) == DictGet(DictGet(idx.index, t, EmptyDict), i, 0)

\* The number of documents the term occurs in.
TrueDocFreq(t) == Cardinality({i \in DocIds : Occurrences(t, TokensOf(i)) >= 1})

QueryTokens == tokenize(op.query)

\* The documents holding at least one token of the last query.
Matching == {i \in DocIds : SeqRange(TokensOf(i)) \cap SeqRange(QueryTokens) # {}}

RankedIds == {ranked[j][1] : j \in 1..Len(ranked)}

Searched == pc = "built" /\ op.name = "search"

\* The position in the query of the first token that document i holds.
FirstHit(i) ==
    CHOOSE k \in 1..Len(QueryTokens) :
        /\ QueryTokens[k] \in SeqRange(TokensOf(i))
        /\ \A m \in 1..(k - 1) : QueryTokens[m] \notin SeqRange(TokensOf(i))

\* Document i enters the score accumulator before document j.
InsertedBefore(i, j) ==
    \/ FirstHit(i) < FirstHit(j)
    \/ FirstHit(i) = FirstHit(j) /\ i < j

\* C1: after build on a fresh instance, document i is under term t with count
\* c exactly when t occurs c >= 1 times in the tokens of docs[i]; no term has
\* an empty postings map, no stored count is below 1, and no document id
\* outside 0..len(docs)-1 appears.
C1_PostingsMatchDocuments ==
    pc = "built" =>
        /\ \A t \in AllTerms : \A i \in DocIds :
               PostingCount(t, i) = Occurrences(t, TokensOf(i))
        /\ \A j \in 1..Len(idx.index) :
               /\ idx.index[j][2] # <<>>
               /\ \A m \in 1..Len(idx.index[j][2]) :
                      /\ idx.index[j][2][m][1] \in DocIds
                      /\ idx.index[j][2][m][2] >= 1

C1_Witness ==
    /\ pc = "built"
    /\ \E t \in DictKeys(idx.index) : \E i, j \in DocIds :
           /\ PostingCount(t, i) = 2
           /\ ~DictHas(DictGet(idx.index, t, EmptyDict), j)

\* C3: for every document collection, the empty one and one of empty texts
\* included, score and search raise no division by zero; for the empty
\* collection the engine exists, doc_count is 0 and search returns nothing.
C3_EmptyCollectionIsSearchable ==
    /\ fault # "ZeroDivisionError"
    /\ (pc # "init" /\ df.rows = <<>>) =>
           /\ pc = "built"
           /\ idx.N = 0
           /\ results = <<>>

\* The part of C3 that the code keeps: no operation divides by zero, and a
\* collection of empty texts has average length 0 and is searched.
NoZeroDivision == fault # "ZeroDivisionError"

AllEmptyTextsSearched ==
    /\ Searched
    /\ Len(docs) > 0
    /\ idx.avg_dl.num = 0
    /\ fault = "none"

\* C4: a document id is returned by score only if some token of the query
\* occurs in the document; with top_k at least the number of documents the ids
\* returned are exactly the documents holding a query token, so a query with
\* no token, or with absent terms only, returns nothing.
C4_OnlyMatchingDocuments ==
    Searched =>
        /\ RankedIds \subseteq Matching
        /\ Cardinality(RankedIds) = Len(ranked)
        /\ op.top_k >= Len(docs) => RankedIds = Matching

C4_Witness ==
    /\ Searched
    /\ op.top_k >= Len(docs)
    /\ RankedIds # {}
    /\ RankedIds # DocIds

\* C6: in a non-empty result of search the maximum score is not 0, every
\* pct_relevance is score / max_score * 100, and the row of maximum score has
\* pct_relevance 100.
C6_MaxScoreIsHundredPercent ==
    (Searched /\ results # <<>>) =>
        LET top == CHOOSE s \in {results[j].score : j \in 1..Len(results)} :
                       \A j \in 1..Len(results) : s >= results[j].score
        IN /\ top > 0
           /\ \A j \in 1..Len(results) :
                  /\ results[j].pct_relevance = ((results[j].score * Scale) \div top) * 100
                  /\ results[j].score = top => results[j].pct_relevance = 100 * Scale

C6_Witness ==
    /\ Searched
    /\ Len(results) >= 2
    /\ results[1].score # results[Len(results)].score

\* C7: for a term whose document frequency df lies in 0..N, the argument of
\* the logarithm of idf is at least 1 and idf is not negative: for the value
\* idf returned on the index at hand, and for every N >= 0 and df in 0..N.
C7_IdfNonNegative ==
    /\ (pc = "built" /\ op.name = "idf") =>
           LET d == TrueDocFreq(op.query)
           IN /\ d \in 0..idx.N
              /\ IdfArg(idx.N, d).num >= IdfArg(idx.N, d).den
              /\ op.value >= 0
    /\ \A n \in 0..MaxDocs : \A d \in 0..n :
           /\ IdfArg(n, d).num >= IdfArg(n, d).den
           /\ Log(IdfArg(n, d).num, IdfArg(n, d).den) >= 0

C7_Witness ==
    /\ pc = "built"
    /\ op.name = "idf"
    /\ idx.N >= 2
    /\ TrueDocFreq(op.query) = idx.N

\* C8: score returns min(top_k, number of scored documents) entries, the
\* first top_k of the full ranking; top_k = 0 returns nothing and a top_k
\* above the number of scored documents is no error.
C8_TopKPrefix ==
    Searched =>
        LET full == score(idx, op.query, Len(docs)).ranked
        IN /\ fault = "none"
           /\ Len(ranked) = Min(op.top_k, Cardinality(Matching))
           /\ \A j \in 1..Len(ranked) : ranked[j] = full[j]
           /\ op.top_k = 0 => ranked = <<>>

C8_Witness ==
    /\ Searched
    /\ op.top_k >= 1
    /\ op.top_k < Cardinality(Matching)
    /\ Len(ranked) = op.top_k

\* C9: the list score returns is in non-increasing order of score, and two
\* documents of equal score are in the order in which they entered the score
\* accumulator: by the query's distinct terms as first seen, then by the
\* order of the documents in a term's postings.
C9_DescendingStableOrder ==
    Searched =>
        \A i, j \in 1..Len(ranked) :
            i < j =>
                /\ ranked[i][2] >= ranked[j][2]
                /\ ranked[i][2] = ranked[j][2] => InsertedBefore(ranked[i][1], ranked[j][1])

C9_Witness ==
    /\ Searched
    /\ \E i, j \in 1..Len(ranked) :
           /\ i < j
           /\ ranked[i][2] = ranked[j][2]
           /\ ranked[i][1] > ranked[j][1]

\* C10: idf, score and search leave the index as build left it: the postings
\* map with its keys and counts, doc_lens, N and avg_dl.
C10_QueriesLeaveIndexUnchanged ==
    [][pc = "built" => (idx' = idx /\ docs' = docs)]_vars

C10_Witness ==
    /\ Searched
    /\ idx.index # <<>>
    /\ idx = build(InvertedIndexInit, docs)
    /\ \E k \in 1..Len(QueryTokens) : QueryTokens[k] \notin DictKeys(idx.index)


(***************************************************************************)
(* SpecRebuild: build called again on an InvertedIndex that was built.     *)
(***************************************************************************)
\* index = InvertedIndex()
NewIndex ==
    /\ pc = "built"
    /\ pc' = "init"
    /\ idx' = InvertedIndexInit
    /\ docs' = <<>>
    /\ builds' = 0
    /\ op' = [NoOp EXCEPT !.name = "InvertedIndex"]
    /\ UNCHANGED <<df, ranked, results, fault>>
    /\ UNCHANGED serveVars

\* index.build(texts) on the instance at hand
BuildCall(texts) ==
    /\ pc \in {"init", "built"}
    /\ builds < MaxBuilds
    /\ pc' = "built"
    /\ idx' = build(idx, texts)
    /\ docs' = texts
    /\ builds' = builds + 1
    /\ op' = [NoOp EXCEPT !.name = "build"]
    /\ UNCHANGED <<df, ranked, results, fault>>
    /\ UNCHANGED serveVars

NextRebuild ==
    \/ NewIndex
    \/ \E texts \in DocLists : BuildCall(texts)

SpecRebuild == Init /\ [][NextRebuild]_vars

\* C2: after every call of build, a second call on a built instance included,
\* N is the number of documents of that call and the number of entries of
\* doc_lens, and the index is what a build from scratch gives.
C2_BuildStartsFromScratch ==
    pc = "built" =>
        /\ idx.N = Len(docs)
        /\ Len(idx.doc_lens) = idx.N
        /\ idx = build(InvertedIndexInit, docs)


(***************************************************************************)
(* SpecServe: main.py.  startup_event runs before any request is served;   *)
(* afterwards the handlers of /search and /reload run in worker threads    *)
(* and interleave between the steps below.  A read or a write of a global  *)
(* is one step.  SearchEngine objects live in heap; engine holds the id of *)
(* one of them.                                                            *)
(***************************************************************************)
Loaders == {"l1", "l2"}

Searchers == {"s1"}

ServeDocLists == { <<>>, << <<"a">> >>, << <<"a", "-", "b">>, <<"A", " ", "a">> >> }

ServeQueries == { <<"a">>, <<"B", " ", "a">> }

\* top_k: int = 5
DefaultTopK == 5

IdleLoader == [pc |-> "idle", new |-> 0, i |-> 0]

IdleSearcher == [pc |-> "idle", e |-> 0, query |-> <<>>, hits |-> <<>>, out |-> <<>>]

InitServe ==
    /\ pc = "init"
    /\ df = DataFrame(<<>>)
    /\ docs = <<>>
    /\ idx = InvertedIndexInit
    /\ builds = 0
    /\ op = NoOp
    /\ ranked = <<>>
    /\ results = <<>>
    /\ fault = "none"
    /\ heap = <<>>
    /\ engine = 0
    /\ feed_df = "unbound"
    /\ reloads = 0
    /\ loader = [l \in Loaders |->
                    IF l = "l1" THEN [IdleLoader EXCEPT !.pc = "startup"] ELSE IdleLoader]
    /\ searcher = [s \in Searchers |-> IdleSearcher]

\* A reload that initialises the live engine object in place.
TargetIdInPlace(h, g) == IF g # 0 THEN g ELSE Len(h) + 1

\* The object that SearchEngine(feed_df) initialises: a new one.
TargetId(h, g) == Len(h) + 1

\* scraper = FeedScraper("feeds.txt"); feed_df = scraper.scrape_all()
\* in startup_event, or in reload_feeds when a /reload request arrives.
LoaderScrape(l, texts) ==
    /\ \/ loader[l].pc = "startup"
       \/ loader[l].pc = "idle" /\ engine # 0 /\ reloads < MaxReloads
    /\ reloads' = IF loader[l].pc = "idle" THEN reloads + 1 ELSE reloads
    /\ feed_df' = DataFrame(DataOf(texts))
    /\ loader' = [loader EXCEPT ![l].pc = "scraped"]
    /\ UNCHANGED <<engineVars, heap, engine, searcher>>

\* SearchEngine(feed_df): __init__ up to self.index = InvertedIndex() and the
\* first line of build.  A frame without the text column raises KeyError,
\* which ends the handler and leaves engine as it was.
LoaderAlloc(l) ==
    /\ loader[l].pc = "scraped"
    /\ IF TextCol \notin feed_df.columns
       THEN /\ loader' = [loader EXCEPT ![l].pc = IF engine = 0 THEN "crashed" ELSE "idle"]
            /\ heap' = heap
       ELSE LET id == TargetId(heap, engine)
                obj == [df |-> feed_df,
                        index |-> [InvertedIndexInit EXCEPT !.N = Len(feed_df.rows)],
                        ranker |-> FALSE]
            IN /\ heap' = IF id > Len(heap) THEN Append(heap, obj)
                          ELSE [heap EXCEPT ![id] = obj]
               /\ loader' = [loader EXCEPT ![l] = [pc |-> "building", new |-> id, i |-> 0]]
    /\ UNCHANGED <<engineVars, engine, feed_df, reloads, searcher>>

\* One iteration of the loop of build.
LoaderBuildDoc(l) ==
    /\ loader[l].pc = "building"
    /\ loader[l].i < Len(heap[loader[l].new].df.rows)
    /\ heap' = [heap EXCEPT ![loader[l].new].index =
                   BuildDoc(@, loader[l].i, TextsOf(heap[loader[l].new].df)[loader[l].i + 1])]
    /\ loader' = [loader EXCEPT ![l].i = @ + 1]
    /\ UNCHANGED <<engineVars, engine, feed_df, reloads, searcher>>

\* The last line of build, and self.ranker = BM25Ranker(self.index).
LoaderFinish(l) ==
    /\ loader[l].pc = "building"
    /\ loader[l].i = Len(heap[loader[l].new].df.rows)
    /\ heap' = [heap EXCEPT ![loader[l].new].index.avg_dl =
                                AvgDl(heap[loader[l].new].index.doc_lens,
                                      heap[loader[l].new].index.N),
                            ![loader[l].new].ranker = TRUE]
    /\ loader' = [loader EXCEPT ![l].pc = "constructed"]
    /\ UNCHANGED <<engineVars, engine, feed_df, reloads, searcher>>

\* engine = <the object constructed>; the handler returns.
LoaderPublish(l) ==
    /\ loader[l].pc = "constructed"
    /\ engine' = loader[l].new
    /\ loader' = [loader EXCEPT ![l] = IdleLoader]
    /\ UNCHANGED <<engineVars, heap, feed_df, reloads, searcher>>

\* A /search request arrives; if engine is None: ...
SearchCheck(s, query) ==
    /\ searcher[s].pc = "idle"
    /\ engine # 0
    /\ searcher' = [searcher EXCEPT ![s] = [IdleSearcher EXCEPT !.pc = "checked", !.query = query]]
    /\ UNCHANGED <<engineVars, heap, engine, feed_df, reloads, loader>>

\* engine.search(query, top_k): the global is read and search is entered.
SearchEnter(s) ==
    /\ searcher[s].pc = "checked"
    /\ searcher' = [searcher EXCEPT ![s].pc = "entered", ![s].e = engine]
    /\ UNCHANGED <<engineVars, heap, engine, feed_df, reloads, loader>>

\* hits = self.ranker.score(query, top_k); without self.ranker it cannot run.
SearchScore(s) ==
    /\ searcher[s].pc = "entered"
    /\ heap[searcher[s].e].ranker
    /\ \E r \in {score(heap[searcher[s].e].index, searcher[s].query, DefaultTopK)} :
          /\ r.fault = "none"
          /\ searcher' = [searcher EXCEPT ![s].pc = "scored", ![s].hits = r.ranked]
    /\ UNCHANGED <<engineVars, heap, engine, feed_df, reloads, loader>>

\* The rows of self.df joined to the hits, and pct_relevance.
SearchJoin(s) ==
    /\ searcher[s].pc = "scored"
    /\ searcher' = [searcher EXCEPT ![s].pc = "done",
                       ![s].out = WithPct(JoinRows(heap[searcher[s].e].df, searcher[s].hits))]
    /\ UNCHANGED <<engineVars, heap, engine, feed_df, reloads, loader>>

\* return results_df.to_dict(orient="records")
SearchReturn(s) ==
    /\ searcher[s].pc = "done"
    /\ searcher' = [searcher EXCEPT ![s] = IdleSearcher]
    /\ UNCHANGED <<engineVars, heap, engine, feed_df, reloads, loader>>

NextServe ==
    \/ \E l \in Loaders, texts \in ServeDocLists : LoaderScrape(l, texts)
    \/ \E l \in Loaders : LoaderAlloc(l)
    \/ \E l \in Loaders : LoaderBuildDoc(l)
    \/ \E l \in Loaders : LoaderFinish(l)
    \/ \E l \in Loaders : LoaderPublish(l)
    \/ \E s \in Searchers, query \in ServeQueries : SearchCheck(s, query)
    \/ \E s \in Searchers : SearchEnter(s)
    \/ \E s \in Searchers : SearchScore(s)
    \/ \E s \in Searchers : SearchJoin(s)
    \/ \E s \in Searchers : SearchReturn(s)

SpecServe == InitServe /\ [][NextServe]_vars

\* The object is a fully constructed SearchEngine over its own frame.
EngineComplete(o) ==
    /\ o.ranker
    /\ o.index = build(InvertedIndexInit, TextsOf(o.df))

InFlight(s) == searcher[s].pc \in {"entered", "scored", "done"}

\* C5: while /reload rebuilds, the global engine never refers to a partly
\* built index, and every /search in flight is evaluated against the one
\* engine it read on entering search: its hits and its rows are those of
\* that engine, fully built.
C5_SearchSeesOneEngine ==
    /\ engine # 0 => (engine \in 1..Len(heap) /\ EngineComplete(heap[engine]))
    /\ \A s \in Searchers :
           /\ InFlight(s) =>
                  /\ searcher[s].e \in 1..Len(heap)
                  /\ EngineComplete(heap[searcher[s].e])
           /\ searcher[s].pc \in {"scored", "done"} =>
                  searcher[s].hits =
                      score(build(InvertedIndexInit, TextsOf(heap[searcher[s].e].df)),
                            searcher[s].query, DefaultTopK).ranked
           /\ searcher[s].pc = "done" =>
                  searcher[s].out =
                      search(heap[searcher[s].e].df,
                             build(InvertedIndexInit, TextsOf(heap[searcher[s].e].df)),
                             searcher[s].query, DefaultTopK).results

\* A search that ends on the old engine after the reload has swapped in a
\* new one with other results, while the next reload is building.
C5_Witness ==
    \E s \in Searchers :
        /\ searcher[s].pc = "done"
        /\ searcher[s].e # engine
        /\ searcher[s].out # <<>>
        /\ searcher[s].out #
               search(heap[engine].df, heap[engine].index,
                      searcher[s].query, DefaultTopK).results
        /\ \E l \in Loaders : loader[l].pc = "building" /\ loader[l].i = 1

=============================================================================
